---- MODULE Spec2Model ----
(***************************************************************************)
(* Model of cvat/apps/dataset_manager/formats/vot.py: the VOT format       *)
(* exporter (annotations -> zip archive) and importer (zip archive ->      *)
(* shapes handed to the annotation sink).                                  *)
(*                                                                         *)
(* Text is modelled as text: numbers are written to decimal strings and    *)
(* parsed back, a ground-truth line is the sequence of its comma-separated *)
(* fields, a text file is the sequence of its newline-terminated lines.    *)
(* Both functions are single-threaded and run to completion, so each is    *)
(* one action.                                                             *)
(***************************************************************************)
EXTENDS Naturals, Sequences, FiniteSets, TLC

VARIABLES
    items,          \* extractor._items: the frames, each a sequence of annotations
    task_meta,      \* task_data.meta["task"]
    export_status,  \* "none" | "done" | "raised"            (vot_exporter)
    file_object,    \* the archive handed to / produced for the caller
    import_status,  \* "none" | "done" | "raised" | "not_zip" (vot_importer)
    shapes          \* the sink: shapes passed to task_data.add_shape, in order

vars == <<items, task_meta, export_status, file_object, import_status, shapes>>

-----------------------------------------------------------------------------
(* Bounds of the model *)

\* most annotations in one export, over all frames
MaxAnn == 2
\* most frames (dataset items) in one export
MaxFrames == 2
\* most lines of a file in an archive given to the importer directly
MaxLines == 2
\* largest start_frame and stop_frame of a task
MaxFrameNo == 2

-----------------------------------------------------------------------------
(* Python values *)

\* None where a text is expected (dict.get of a missing key)
None == "None"

\* str(n) / f"{n}" of a non-negative whole number
Digit == <<"0", "1", "2", "3", "4", "5", "6", "7", "8", "9">>
RECURSIVE Str(_)
Str(n) == IF n < 10 THEN Digit[n + 1] ELSE Str(n \div 10) \o Digit[(n % 10) + 1]

\* the numbers whose text occurs in the model
Numbers == 0 .. 20

\* float(s) / int(s) succeed on the text of a number and raise ValueError otherwise
IsNumber(s) == \E n \in Numbers : Str(n) = s

\* float(s) / int(s): the number a decimal text denotes
ParseNumber(s) == CHOOSE n \in Numbers : Str(n) = s

SeqSum(s) ==
    LET RECURSIVE Sum(_)
        Sum(i) == IF i = 0 THEN 0 ELSE s[i] + Sum(i - 1)
    IN  Sum(Len(s))

\* the sequences over S of length at most n
SeqUpTo(S, n) == UNION {[1 .. k -> S] : k \in 0 .. n}

\* the concatenation of a sequence of sequences
Flatten(ss) ==
    LET RECURSIVE Cat(_)
        Cat(i) == IF i = 0 THEN <<>> ELSE Cat(i - 1) \o ss[i]
    IN  Cat(Len(ss))

-----------------------------------------------------------------------------
(* vot.py, module level *)

attribute_mapping ==
    [k \in {"appearance_change", "aspect_ratio_change", "background_clutter",
            "camera_motion", "fast_motion", "full_occlusion",
            "illumination_variation", "low_resolution", "motion_blur",
            "out_of_view", "partial_occlusion", "scale_variation",
            "similar_objects"} |->
        CASE k = "appearance_change"      -> "AC"
          [] k = "aspect_ratio_change"    -> "ARC"
          [] k = "background_clutter"     -> "BC"
          [] k = "camera_motion"          -> "CM"
          [] k = "fast_motion"            -> "FM"
          [] k = "full_occlusion"         -> "FOC"
          [] k = "illumination_variation" -> "IV"
          [] k = "low_resolution"         -> "LR"
          [] k = "motion_blur"            -> "MB"
          [] k = "out_of_view"            -> "OV"
          [] k = "partial_occlusion"      -> "POC"
          [] k = "scale_variation"        -> "SV"
          [] k = "similar_objects"        -> "SO"]

\* dict.get on the exporter's accumulation map, a dict in insertion order:
\* a sequence of [key, values] entries
HasKey(attributes, key) == \E i \in 1 .. Len(attributes) : attributes[i].key = key

\* attributes[key], for a key the map has
DictGet(attributes, key) ==
    (CHOOSE e \in {attributes[i] : i \in 1 .. Len(attributes)} : e.key = key).values

Keys(attributes) == {attributes[i].key : i \in 1 .. Len(attributes)}

\* _map_attributes: the abbreviation of every key, None for a key outside the table
_map_attributes(attributes) ==
    [i \in 1 .. Len(attributes) |->
        IF attributes[i].key \in DOMAIN attribute_mapping
        THEN attribute_mapping[attributes[i].key]
        ELSE None]

\* _make_info with the frame numbers left 0-based
_make_info_zero_based(meta) ==
    << [key |-> "sequence_name",         value |-> meta.name],
       [key |-> "spectrum",              value |-> "color"],
       [key |-> "camera_name",           value |-> "n/a"],
       [key |-> "frame_size_x",          value |-> 0],
       [key |-> "frame_size_y",          value |-> 0],
       [key |-> "number_of_frames",      value |-> meta.size],
       [key |-> "attributes",            value |-> ""],
       [key |-> "location",              value |-> "n/a"],
       [key |-> "year",                  value |-> 0],
       [key |-> "original_video_file",   value |-> "n/a"],
       [key |-> "original_frame_size_x", value |-> 0],
       [key |-> "original_frame_size_y", value |-> 0],
       [key |-> "cropping_offset_x",     value |-> 0],
       [key |-> "cropping_offset_y",     value |-> 0],
       [key |-> "deinterlaced",          value |-> 0],
       [key |-> "start_frame",           value |-> ParseNumber(meta.start_frame)],
       [key |-> "end_frame",             value |-> ParseNumber(meta.stop_frame)] >>

\* _make_info: the fixed key set of info.txt, in insertion order
_make_info(meta) ==
    << [key |-> "sequence_name",         value |-> meta.name],
       [key |-> "spectrum",              value |-> "color"],
       [key |-> "camera_name",           value |-> "n/a"],
       [key |-> "frame_size_x",          value |-> 0],
       [key |-> "frame_size_y",          value |-> 0],
       [key |-> "number_of_frames",      value |-> meta.size],
       [key |-> "attributes",            value |-> ""],
       [key |-> "location",              value |-> "n/a"],
       [key |-> "year",                  value |-> 0],
       [key |-> "original_video_file",   value |-> "n/a"],
       [key |-> "original_frame_size_x", value |-> 0],
       [key |-> "original_frame_size_y", value |-> 0],
       [key |-> "cropping_offset_x",     value |-> 0],
       [key |-> "cropping_offset_y",     value |-> 0],
       [key |-> "deinterlaced",          value |-> 0],
       [key |-> "start_frame",           value |-> ParseNumber(meta.start_frame) + 1],
       [key |-> "end_frame",             value |-> ParseNumber(meta.stop_frame) + 1] >>

\* `key in attribute_mapping.items()`: the items are (name, code) pairs, and a
\* key is a string, so the test is never true
KeyInItems(key) == FALSE

\* _clear_attributes without the test for a 1: every VOT attribute is kept
_clear_attributes_keep_zero(attributes) ==
    LET keep(e) == e.key \in DOMAIN attribute_mapping \/ KeyInItems(e.key)
    IN  SelectSeq(attributes, keep)

\* _clear_attributes that leaves the loop at the first 0 instead of the first 1:
\* an entry is kept only when it holds no 0
_clear_attributes_all_ones(attributes) ==
    LET keep(e) ==
            /\ \A j \in 1 .. Len(e.values) : e.values[j] = 1
            /\ (e.key \in DOMAIN attribute_mapping \/ KeyInItems(e.key))
    IN  SelectSeq(attributes, keep)

\* _clear_attributes: keeps the entries that hold a 1 and whose key is a VOT
\* attribute, in their order
_clear_attributes(attributes) ==
    LET keep(e) ==
            \E j \in 1 .. Len(e.values) :
                /\ e.values[j] = 1
                /\ (e.key \in DOMAIN attribute_mapping \/ KeyInItems(e.key))
    IN  SelectSeq(attributes, keep)

-----------------------------------------------------------------------------
(* vot_exporter *)

\* the attribute names of the task's label, in the order annotation.attributes
\* iterates them: two VOT attributes and one that is not in the table
LabelAttributes == <<"full_occlusion", "out_of_view", "custom">>

\* lines 148-150: attributes[key] is created on first sight, then the flag appended
AppendFlag(attributes, key, value) ==
    LET flag == IF value THEN 1 ELSE 0
    IN  IF HasKey(attributes, key)
        THEN [i \in 1 .. Len(attributes) |->
                IF attributes[i].key = key
                THEN [key |-> key, values |-> Append(attributes[i].values, flag)]
                ELSE attributes[i]]
        ELSE Append(attributes, [key |-> key, values |-> <<flag>>])

\* lines 147-150: the flags of one annotation, accumulated
Accumulate(attributes, annotation) ==
    LET RECURSIVE Acc(_)
        Acc(i) ==
            IF i = 0 THEN attributes
            ELSE IF LabelAttributes[i] \in DOMAIN annotation.attributes
                 THEN AppendFlag(Acc(i - 1), LabelAttributes[i],
                                 annotation.attributes[LabelAttributes[i]])
                 ELSE Acc(i - 1)
    IN  Acc(Len(LabelAttributes))

\* line 152: attributes.get(key)[-1] raises TypeError when the map lacks the key
\* ("or" evaluates its right operand only when the left one is false)
OcclusionCheckRaises(attributes) ==
    \/ ~HasKey(attributes, "full_occlusion")
    \/ /\ DictGet(attributes, "full_occlusion")[Len(DictGet(attributes, "full_occlusion"))] # 1
       /\ ~HasKey(attributes, "out_of_view")

\* line 152, when it does not raise
Occluded(attributes) ==
    LET fo == DictGet(attributes, "full_occlusion")
    IN  \/ fo[Len(fo)] = 1
        \/ LET ov == DictGet(attributes, "out_of_view") IN ov[Len(ov)] = 1

NanLine == <<"nan", "nan", "nan", "nan", "nan", "nan", "nan", "nan">>

\* the corner line written with the two corners first
CornerLine_corners_first(points) ==
    LET xtl == Str(points[1])
        ytl == Str(points[2])
        xbr == Str(points[3])
        ybr == Str(points[4])
    IN  <<xtl, ytl, xbr, ybr, xtl, ybr, xbr, ytl>>

\* line 155: f"{xtl},{ytl},{xtl},{ybr},{xbr},{ybr},{xbr},{ytl}"
CornerLine(points) ==
    LET xtl == Str(points[1])
        ytl == Str(points[2])
        xbr == Str(points[3])
        ybr == Str(points[4])
    IN  <<xtl, ytl, xtl, ybr, xbr, ybr, xbr, ytl>>

\* lines 132-155: the loop over the annotations of all frames, in order
ExportLoop(annotations) ==
    LET RECURSIVE Loop(_)
        Loop(n) ==
            IF n = 0
            THEN [attributes |-> <<>>, groundtruths |-> <<>>, raised |-> FALSE]
            ELSE LET before == Loop(n - 1)
                     attributes == Accumulate(before.attributes, annotations[n])
                 IN  IF before.raised THEN before
                     ELSE IF OcclusionCheckRaises(attributes)
                     THEN [before EXCEPT !.attributes = attributes, !.raised = TRUE]
                     ELSE [before EXCEPT
                             !.attributes = attributes,
                             !.groundtruths =
                                 Append(@, IF Occluded(attributes)
                                           THEN NanLine
                                           ELSE CornerLine(annotations[n].points))]
    IN  Loop(Len(annotations))

\* lines 159-162: one <key>.tag file per entry, one line per value
TagFiles(attributes) ==
    [key \in Keys(attributes) |->
        [j \in 1 .. Len(DictGet(attributes, key)) |-> Str(DictGet(attributes, key)[j])]]

\* the keys of info whose value is an int
IntKeys ==
    {"frame_size_x", "frame_size_y", "year", "original_frame_size_x",
     "original_frame_size_y", "cropping_offset_x", "cropping_offset_y",
     "deinterlaced", "start_frame", "end_frame"}

\* lines 171-175: info.txt, one key=value line per entry of info; the value of
\* "attributes" is the list of codes that ",".join puts between commas
InfoFile(meta, attributes) ==
    LET info == _make_info(meta)
    IN  [i \in 1 .. Len(info) |->
            [key |-> info[i].key,
             value |-> IF info[i].key = "attributes" THEN _map_attributes(attributes)
                       ELSE IF info[i].key \in IntKeys THEN <<Str(info[i].value)>>
                       ELSE <<info[i].value>>]]

\* lines 178-183
SequenceFile(meta) ==
    LET info == _make_info(meta)
        start_frame == (CHOOSE e \in {info[i] : i \in 1 .. Len(info)} :
                            e.key = "start_frame").value
    IN  << "channels.{spectrum}=data/%08d.png",
           "start_frame=" \o Str(start_frame),
           "format=default",
           "fps={fps}",
           "name={sequence_name}" >>

\* the archive the caller holds before, or without, a completed export
NoArchive ==
    [present |-> FALSE, is_zip |-> FALSE, has_gt |-> FALSE, gt |-> <<>>, tags |-> <<>>,
     info |-> <<>>, sequence |-> <<>>]

\* vot_exporter with save_images = False.  ",".join raises TypeError on a None
\* code (line 172); make_zip_archive (line 185) is reached only without a raise.
vot_exporter(frames, meta) ==
    LET loop == ExportLoop(Flatten(frames))
        attributes == _clear_attributes(loop.attributes)
        codes == _map_attributes(attributes)
        raised == loop.raised \/ \E i \in 1 .. Len(codes) : codes[i] = None
    IN  [raised |-> raised,
         archive |->
            IF raised THEN NoArchive
            ELSE [present |-> TRUE,
                  is_zip |-> TRUE,
                  has_gt |-> TRUE,
                  gt |-> loop.groundtruths,
                  tags |-> TagFiles(attributes),
                  info |-> InfoFile(meta, attributes),
                  sequence |-> SequenceFile(meta)]]

-----------------------------------------------------------------------------
(* vot_importer *)

\* read().rstrip("\n").splitlines(): the lines of a file, without the empty
\* lines at its end
ReadLines(content, empty) ==
    LET RECURSIVE Strip(_)
        Strip(n) == IF n > 0 /\ content[n] = empty THEN Strip(n - 1) ELSE n
    IN  SubSeq(content, 1, Strip(Len(content)))

\* line 98: "nan" in line.  Of the fields of the model, only "nan" holds it.
HasNan(line) == \E i \in 1 .. Len(line) : line[i] = "nan"

\* lines 99-101: the 8 zeros, or float() of every field
ParseLine(line) ==
    IF HasNan(line) THEN <<0, 0, 0, 0, 0, 0, 0, 0>>
    ELSE [i \in 1 .. Len(line) |-> ParseNumber(line[i])]

\* lines 98-109 raise on ground-truth line x (from 0): ValueError from float(),
\* IndexError from value[x] and from line[0], line[1], line[4], line[5]
LineRaises(line, x, attributes) ==
    \/ ~HasNan(line) /\ \E i \in 1 .. Len(line) : ~IsNumber(line[i])
    \/ \E key \in DOMAIN attributes : Len(attributes[key]) < x + 1
    \/ ~HasNan(line) /\ Len(line) < 6

\* a shape built from the first four values of the line
LabeledShape_first_four(line, x, attributes) ==
    LET values == ParseLine(line)
    IN  [type |-> "rectangle",
         points |-> <<values[1], values[2], values[3], values[4]>>,
         occluded |-> FALSE,
         attributes |-> [key \in DOMAIN attributes |-> attributes[key][x + 1] = "1"],
         label |-> "object",
         source |-> "manual",
         frame |-> x]

\* lines 107-116
LabeledShape(line, x, attributes) ==
    LET values == ParseLine(line)
    IN  [type |-> "rectangle",
         points |-> <<values[1], values[2], values[5], values[6]>>,
         occluded |-> FALSE,
         attributes |-> [key \in DOMAIN attributes |-> attributes[key][x + 1] = "1"],
         label |-> "object",
         source |-> "manual",
         frame |-> x]

\* a loop that collects the shapes and adds none of them when a line raises
ImportLoop_all_or_nothing(groundtruths, attributes) ==
    LET RECURSIVE Loop(_)
        Loop(n) ==
            IF n = 0 THEN [raised |-> FALSE, shapes |-> <<>>]
            ELSE LET before == Loop(n - 1)
                 IN  IF before.raised THEN before
                     ELSE IF LineRaises(groundtruths[n], n - 1, attributes)
                     THEN [raised |-> TRUE, shapes |-> <<>>]
                     ELSE [before EXCEPT !.shapes =
                             Append(@, LabeledShape(groundtruths[n], n - 1, attributes))]
    IN  Loop(Len(groundtruths))

\* lines 97-118: the loop over the ground-truth lines; every shape is added to
\* the sink as soon as it is built
ImportLoop(groundtruths, attributes) ==
    LET RECURSIVE Loop(_)
        Loop(n) ==
            IF n = 0 THEN [raised |-> FALSE, shapes |-> <<>>]
            ELSE LET before == Loop(n - 1)
                 IN  IF before.raised THEN before
                     ELSE IF LineRaises(groundtruths[n], n - 1, attributes)
                     THEN [before EXCEPT !.raised = TRUE]
                     ELSE [before EXCEPT !.shapes =
                             Append(@, LabeledShape(groundtruths[n], n - 1, attributes))]
    IN  Loop(Len(groundtruths))

\* vot_importer without the assertion of line 88, reading a missing
\* groundtruth.txt as an empty file
vot_importer_no_assert(archive) ==
    IF ~archive.is_zip THEN [raised |-> FALSE, shapes |-> <<>>]
    ELSE ImportLoop(ReadLines(archive.gt, <<"">>),
                    [key \in DOMAIN archive.tags |-> ReadLines(archive.tags[key], "")])

\* vot_importer: returns at once on a stream that is no zip (line 79), raises
\* AssertionError without groundtruth.txt (line 88), else runs the loop
vot_importer(archive) ==
    IF ~archive.is_zip THEN [raised |-> FALSE, shapes |-> <<>>]
    ELSE IF ~archive.has_gt THEN [raised |-> TRUE, shapes |-> <<>>]
    ELSE ImportLoop(ReadLines(archive.gt, <<"">>),
                    [key \in DOMAIN archive.tags |-> ReadLines(archive.tags[key], "")])

-----------------------------------------------------------------------------
(* The inputs *)

\* points of the annotation at position i of the export: xtl, ytl, xbr, ybr,
\* four different numbers, and a different rectangle at every position
RectAt(i) == <<i, i + 1, i + 2, i + 4>>

\* annotation.attributes: any of the label's attributes, each true or false
AttributeMaps ==
    UNION {[S -> BOOLEAN] : S \in SUBSET {LabelAttributes[i] : i \in 1 .. Len(LabelAttributes)}}

\* the annotations with the attributes m[1], m[2], ..., in this order
AnnotationSeq(m) == [i \in 1 .. Len(m) |-> [points |-> RectAt(i), attributes |-> m[i]]]

\* the ways to put n annotations into at most MaxFrames frames: the number of
\* annotations of every frame
FrameSizes(n) == {s \in SeqUpTo(0 .. n, MaxFrames) : SeqSum(s) = n}

\* the frames that hold the annotations `annotations`, sizes[i] of them in frame i
Split(annotations, sizes) ==
    [i \in 1 .. Len(sizes) |->
        SubSeq(annotations, SeqSum(SubSeq(sizes, 1, i - 1)) + 1,
                            SeqSum(SubSeq(sizes, 1, i)))]

\* extractor._items is any sequence of at most MaxFrames frames with at most n
\* annotations in all
IsItems(value, n) ==
    \E k \in 0 .. n :
        \E m \in [1 .. k -> AttributeMaps] :
            \E sizes \in FrameSizes(k) :
                value = Split(AnnotationSeq(m), sizes)

\* task_data.meta["task"]; the frame numbers are texts, as the host stores them
TaskMeta(start, stop) ==
    [name |-> "seq", size |-> "5", start_frame |-> Str(start), stop_frame |-> Str(stop)]

TaskMetas == {TaskMeta(start, stop) : start \in 0 .. MaxFrameNo, stop \in 0 .. MaxFrameNo}

\* fields of a ground-truth line of a given archive
GivenLines ==
    {NanLine,
     <<"1", "2", "3", "2", "3", "4", "1", "4">>,
     <<"5", "6", "7", "8", "9", "10">>,
     <<"1", "2", "3">>,
     <<"1", "x", "3", "2", "3", "4", "1", "4">>,
     <<"">>}

\* lines of a .tag file of a given archive
GivenTagLines == {"0", "1", "true"}

\* the .tag files a given archive may hold
GivenTagNames == {"full_occlusion", "custom"}

\* archives handed to the importer by a caller
GivenTags ==
    UNION {[S -> SeqUpTo(GivenTagLines, MaxLines)] : S \in SUBSET GivenTagNames}

\* streams handed to the importer by a caller: zip archives with groundtruth.txt,
\* zip archives without it, and a stream that is no zip
GivenArchives ==
    [present : {TRUE}, is_zip : {TRUE}, has_gt : {TRUE},
     gt : SeqUpTo(GivenLines, MaxLines), tags : GivenTags,
     info : {<<>>}, sequence : {<<>>}]
    \cup
    [present : {TRUE}, is_zip : {TRUE}, has_gt : {FALSE},
     gt : {<<>>}, tags : GivenTags, info : {<<>>}, sequence : {<<>>}]
    \cup
    {[NoArchive EXCEPT !.present = TRUE]}

-----------------------------------------------------------------------------
(* The state machine *)

\* a task with its annotations; nothing exported or imported yet
Init ==
    /\ IsItems(items, MaxAnn)
    /\ task_meta = TaskMeta(3, 7)
    /\ export_status = "none"
    /\ file_object = NoArchive
    /\ import_status = "none"
    /\ shapes = <<>>

\* vot_exporter(file_object, task_data)
Export ==
    /\ export_status = "none"
    /\ LET result == vot_exporter(items, task_meta)
       IN  /\ export_status' = IF result.raised THEN "raised" ELSE "returned"
           /\ file_object' = result.archive
    /\ UNCHANGED <<items, task_meta, import_status, shapes>>

\* vot_importer(file_object, task_data)
Import ==
    /\ file_object.present
    /\ import_status = "none"
    /\ LET result == vot_importer(file_object)
       IN  /\ import_status' = IF result.raised THEN "raised" ELSE "returned"
           /\ shapes' = shapes \o result.shapes
    /\ UNCHANGED <<items, task_meta, export_status, file_object>>

Next == Export \/ Import

Spec == Init /\ [][Next]_vars

\* an archive from a caller, and an empty sink
InitImport ==
    /\ items = <<>>
    /\ task_meta = TaskMeta(3, 7)
    /\ export_status = "none"
    /\ file_object \in GivenArchives
    /\ import_status = "none"
    /\ shapes = <<>>

NextImport == Import

SpecImport == InitImport /\ [][NextImport]_vars

\* tasks of every frame range, with at most one annotation
InitInfo ==
    /\ IsItems(items, 1)
    /\ task_meta \in TaskMetas
    /\ export_status = "none"
    /\ file_object = NoArchive
    /\ import_status = "none"
    /\ shapes = <<>>

NextInfo == Export

SpecInfo == InitInfo /\ [][NextInfo]_vars

-----------------------------------------------------------------------------
(* What the claims speak of, stated on the inputs and the outputs *)

\* the annotations of the export, in the order the exporter meets them
annotations == Flatten(items)

LabelNames == {LabelAttributes[i] : i \in 1 .. Len(LabelAttributes)}

\* every frame carries exactly one annotation
OnePerFrame == \A i \in 1 .. Len(items) : Len(items[i]) = 1

\* the frame (from 1) that holds annotation n
FrameOf(n) ==
    CHOOSE i \in 1 .. Len(items) :
        /\ SeqSum([j \in 1 .. i - 1 |-> Len(items[j])]) < n
        /\ n <= SeqSum([j \in 1 .. i |-> Len(items[j])])

\* the positions of the annotations that carry attribute key
Carriers(key) == {n \in 1 .. Len(annotations) : key \in DOMAIN annotations[n].attributes}

\* attribute key has been seen when annotation n has been accumulated
Seen(key, n) == \E j \in Carriers(key) : j <= n

\* the accumulated flag of key at annotation n is 1: the latest annotation up to
\* n that carries key has it true
FlagIsOne(key, n) ==
    /\ Seen(key, n)
    /\ LET last == CHOOSE j \in Carriers(key) :
                        j <= n /\ \A l \in Carriers(key) : l <= n => l <= j
       IN  annotations[last].attributes[key]

\* the flags of key, one text line per annotation that carries it
FlagLines(key) ==
    LET RECURSIVE Lines(_)
        Lines(n) ==
            IF n = 0 THEN <<>>
            ELSE IF n \in Carriers(key)
                 THEN Append(Lines(n - 1), IF annotations[n].attributes[key] THEN "1" ELSE "0")
                 ELSE Lines(n - 1)
    IN  Lines(Len(annotations))

\* key is true on some annotation / on none
HasOne(key) == \E n \in Carriers(key) : annotations[n].attributes[key]
AllZero(key) == ~HasOne(key)

\* the codes in the attributes value of info.txt
InfoAttributes ==
    (CHOOSE e \in {file_object.info[i] : i \in 1 .. Len(file_object.info)} :
        e.key = "attributes").value

\* the text of a value of info.txt
InfoValue(key) ==
    (CHOOSE e \in {file_object.info[i] : i \in 1 .. Len(file_object.info)} :
        e.key = key).value[1]

\* the occlusion check of annotation n meets a missing entry
MissingAt(n) ==
    \/ ~Seen("full_occlusion", n)
    \/ ~FlagIsOne("full_occlusion", n) /\ ~Seen("out_of_view", n)

\* the line of annotation n is the nan line
NanAt(n) == FlagIsOne("full_occlusion", n) \/ FlagIsOne("out_of_view", n)

Zeros == <<0, 0, 0, 0>>

-----------------------------------------------------------------------------
(* C3 *)

\* C3: when the occlusion check runs for an annotation and the accumulation map
\* has no entry for "full_occlusion" or none for "out_of_view", the missing flag
\* counts as not occluded: the export does not fail, and the annotation's line is
\* the corner encoding unless the other flag is 1.
C3_MissingFlagNotOccluded ==
    (export_status # "none") =>
        \A n \in 1 .. Len(annotations) :
            (~Seen("full_occlusion", n) \/ ~Seen("out_of_view", n)) =>
                /\ export_status = "returned"
                /\ Len(file_object.gt) >= n
                /\ file_object.gt[n] =
                        IF NanAt(n) THEN NanLine ELSE CornerLine(annotations[n].points)

-----------------------------------------------------------------------------
(* C8 *)

\* C8: after every completed export, over any frames, groundtruth.txt and every
\* .tag file have one line per frame, and line i of a .tag file describes the
\* frame that line i of groundtruth.txt describes.
C8_OneLinePerFrame ==
    (export_status = "returned") =>
        /\ Len(file_object.gt) = Len(items)
        /\ \A key \in DOMAIN file_object.tags :
            /\ Len(file_object.tags[key]) = Len(items)
            /\ \A j \in 1 .. Len(file_object.tags[key]) :
                \E n \in Carriers(key) :
                    /\ Cardinality({l \in Carriers(key) : l <= n}) = j
                    /\ FrameOf(n) = FrameOf(j)

-----------------------------------------------------------------------------
(* C4 *)

\* C4: for every frame whose accumulated "out_of_view" flag is 1, the exporter
\* writes the nan line at the frame's position in groundtruth.txt, and the
\* importer produces for that frame a shape whose four points are 0.
C4_OutOfViewIsNan ==
    \A n \in 1 .. Len(annotations) :
        FlagIsOne("out_of_view", n) =>
            /\ (export_status # "none") =>
                    /\ export_status = "returned"
                    /\ Len(file_object.gt) >= FrameOf(n)
                    /\ file_object.gt[FrameOf(n)] = NanLine
            /\ (import_status # "none") =>
                    /\ import_status = "returned"
                    /\ \E k \in 1 .. Len(shapes) :
                            shapes[k].frame = FrameOf(n) - 1 /\ shapes[k].points = Zeros

-----------------------------------------------------------------------------
(* C5 *)

\* C5: after every completed export, an attribute whose flag is 0 on every
\* frame has no <name>.tag file in the archive, and its abbreviated code is not
\* in the attributes value of info.txt.
C5_AllZeroAbsent ==
    (export_status = "returned") =>
        \A key \in LabelNames :
            AllZero(key) =>
                /\ key \notin DOMAIN file_object.tags
                /\ key \in DOMAIN attribute_mapping =>
                        \A i \in 1 .. Len(InfoAttributes) :
                            InfoAttributes[i] # attribute_mapping[key]

\* a completed export of two annotations where out_of_view is carried and never
\* true, while full_occlusion is true once and has its file and its code
C5_Witness ==
    /\ export_status = "returned"
    /\ Len(annotations) = 2
    /\ Carriers("out_of_view") = {1, 2}
    /\ AllZero("out_of_view")
    /\ "full_occlusion" \in DOMAIN file_object.tags
    /\ InfoAttributes = <<"FOC">>

-----------------------------------------------------------------------------
(* C10 *)

\* C10 as stated: after every completed export, every attribute name whose flag
\* list holds a 1, in the abbreviation table or not, has a <name>.tag file that
\* holds its full flag list.
C10_EveryOneKept ==
    (export_status = "returned") =>
        \A key \in LabelNames :
            HasOne(key) =>
                /\ key \in DOMAIN file_object.tags
                /\ file_object.tags[key] = FlagLines(key)

\* C10, amended: after every completed export, every attribute name of the
\* abbreviation table whose flag list holds a 1 has a <name>.tag file that holds
\* its full flag list, and a name outside the table has no .tag file.
C10_MappedOneKept ==
    (export_status = "returned") =>
        \A key \in LabelNames :
            /\ (HasOne(key) /\ key \in DOMAIN attribute_mapping) =>
                    /\ key \in DOMAIN file_object.tags
                    /\ file_object.tags[key] = FlagLines(key)
            /\ key \notin DOMAIN attribute_mapping => key \notin DOMAIN file_object.tags

\* a completed export where out_of_view is 1 then 0 and has its file, and where
\* "custom", true on an annotation, has none
C10_Witness ==
    /\ export_status = "returned"
    /\ HasOne("custom")
    /\ "out_of_view" \in DOMAIN file_object.tags
    /\ file_object.tags["out_of_view"] = <<"1", "0">>
    /\ "custom" \notin DOMAIN file_object.tags

-----------------------------------------------------------------------------
(* C7 *)

\* C7: after every completed export, start_frame of info.txt is the task's
\* start_frame + 1, end_frame is the task's stop_frame + 1, and the start_frame
\* line of the sequence file carries the start_frame of info.txt.
C7_FrameRange ==
    (export_status = "returned") =>
        \E start \in 0 .. MaxFrameNo, stop \in 0 .. MaxFrameNo :
            /\ task_meta.start_frame = Str(start)
            /\ task_meta.stop_frame = Str(stop)
            /\ InfoValue("start_frame") = Str(start + 1)
            /\ InfoValue("end_frame") = Str(stop + 1)
            /\ file_object.sequence[2] = "start_frame=" \o InfoValue("start_frame")

\* a completed export of a task that starts at frame 2 and stops at frame 0
C7_Witness ==
    /\ export_status = "returned"
    /\ task_meta.start_frame = "2"
    /\ task_meta.stop_frame = "0"
    /\ InfoValue("start_frame") = "3"
    /\ InfoValue("end_frame") = "1"

-----------------------------------------------------------------------------
(* C2 *)

\* C2: on a zip archive without groundtruth.txt the importer raises, and no
\* shape has been added to the sink; it does not return with zero shapes.
C2_MissingGroundTruthRaises ==
    (import_status # "none" /\ file_object.is_zip /\ ~file_object.has_gt) =>
        /\ import_status = "raised"
        /\ shapes = <<>>

\* the importer has raised on a zip archive that holds .tag files and no
\* groundtruth.txt
C2_Witness ==
    /\ import_status = "raised"
    /\ file_object.is_zip
    /\ ~file_object.has_gt
    /\ DOMAIN file_object.tags # {}

-----------------------------------------------------------------------------
(* C6 *)

\* the ground-truth lines of the archive, without the empty lines at the end
GivenGt == ReadLines(file_object.gt, <<"">>)

\* the number a decimal text stands for
NumberOf(text) == CHOOSE n \in Numbers : Str(n) = text

\* line k (from 1) of groundtruth.txt cannot be made a shape: a text that is no
\* number in a line without nan, fewer than 6 values in such a line, or a .tag
\* file without a line k
BadLine(k) ==
    \/ /\ \A i \in 1 .. Len(GivenGt[k]) : GivenGt[k][i] # "nan"
       /\ \/ Len(GivenGt[k]) < 6
          \/ \E i \in 1 .. Len(GivenGt[k]) : \A n \in Numbers : GivenGt[k][i] # Str(n)
    \/ \E key \in DOMAIN file_object.tags : Len(file_object.tags[key]) < k

\* the archive is a zip with groundtruth.txt, lines of numbers or nan, and .tag
\* files with a line for every ground-truth line
WellFormed ==
    /\ file_object.is_zip
    /\ file_object.has_gt
    /\ \A k \in 1 .. Len(GivenGt) : ~BadLine(k)

\* C6: for an archive whose groundtruth.txt has n lines the importer hands n
\* shapes to the sink in line order; shape k (from 0) has frame k; for a line
\* without nan its rectangle is (v0, v1, v4, v5) of the line's values, so
\* 1,2,3,2,3,4,1,4 gives (1,2)-(3,4); it has one attribute per .tag file, true
\* exactly when line k of that file is "1".
C6_OneShapePerLine ==
    (import_status # "none" /\ WellFormed) =>
        /\ import_status = "returned"
        /\ Len(shapes) = Len(GivenGt)
        /\ \A k \in 1 .. Len(shapes) :
            /\ shapes[k].frame = k - 1
            /\ (\A i \in 1 .. Len(GivenGt[k]) : GivenGt[k][i] # "nan") =>
                    shapes[k].points = <<NumberOf(GivenGt[k][1]), NumberOf(GivenGt[k][2]),
                                         NumberOf(GivenGt[k][5]), NumberOf(GivenGt[k][6])>>
            /\ GivenGt[k] = <<"1", "2", "3", "2", "3", "4", "1", "4">> =>
                    shapes[k].points = <<1, 2, 3, 4>>
            /\ DOMAIN shapes[k].attributes = DOMAIN file_object.tags
            /\ \A key \in DOMAIN file_object.tags :
                    shapes[k].attributes[key] = (file_object.tags[key][k] = "1")

\* two shapes from two lines, the second line 1,2,3,2,3,4,1,4, with two .tag
\* files, one attribute true from "1" and one false from "true"
C6_Witness ==
    /\ import_status = "returned"
    /\ Len(shapes) = 2
    /\ GivenGt[2] = <<"1", "2", "3", "2", "3", "4", "1", "4">>
    /\ DOMAIN file_object.tags = {"full_occlusion", "custom"}
    /\ file_object.tags["full_occlusion"][2] = "1"
    /\ file_object.tags["custom"][2] = "true"
    /\ shapes[2].attributes["full_occlusion"]
    /\ ~shapes[2].attributes["custom"]

-----------------------------------------------------------------------------
(* C9 *)

\* C9 as stated: whenever the importer raises, no shape of the call has been
\* added to the sink.
C9_NoShapeOnRaise == (import_status = "raised") => shapes = <<>>

\* C9, amended: whenever the importer raises, the sink holds the shapes of the
\* lines before the first line that cannot be made a shape, and no other: none
\* when groundtruth.txt is missing or line 0 fails, k shapes when line k fails.
C9_ShapesBeforeFailure ==
    (import_status = "raised") =>
        \/ ~file_object.has_gt /\ shapes = <<>>
        \/ /\ file_object.has_gt
           /\ \E k \in 1 .. Len(GivenGt) :
                /\ BadLine(k)
                /\ \A j \in 1 .. k - 1 : ~BadLine(j)
                /\ Len(shapes) = k - 1
                /\ \A j \in 1 .. k - 1 : shapes[j].frame = j - 1

\* the importer has raised on the second line, with the first line's shape in
\* the sink
C9_Witness ==
    /\ import_status = "raised"
    /\ Len(GivenGt) = 2
    /\ BadLine(2)
    /\ Len(shapes) = 1

-----------------------------------------------------------------------------
(* C1 *)

\* C1 as stated: for frames that each carry one rectangle annotation with
\* boolean attributes, export followed by import yields as many shapes as
\* frames, and the shape at each frame index has the annotation's rectangle
\* coordinates and its value for every attribute that is not false on all
\* frames.
C1_RoundTrip ==
    (OnePerFrame /\ import_status = "returned") =>
        /\ Len(shapes) = Len(items)
        /\ \A i \in 1 .. Len(shapes) :
            /\ shapes[i].frame = i - 1
            /\ shapes[i].points = annotations[i].points
            /\ \A key \in DOMAIN annotations[i].attributes :
                HasOne(key) =>
                    /\ key \in DOMAIN shapes[i].attributes
                    /\ shapes[i].attributes[key] = annotations[i].attributes[key]

\* C1, amended: for frames that each carry one rectangle annotation with
\* boolean attributes, an export followed by an import that both complete
\* yield as many shapes as frames; the shape at each frame index has the
\* annotation's rectangle coordinates, or four zeros when the latest
\* full_occlusion or out_of_view flag at that frame is 1; and it has the
\* annotation's value for every attribute of the abbreviation table that is
\* not false on all frames, and no attribute outside the table.  The export
\* raises exactly when the occlusion check meets a missing entry, and the
\* import raises only when an attribute with a .tag file is not carried by
\* every frame.
C1_RoundTripAmended ==
    OnePerFrame =>
        /\ (export_status = "raised") => \E n \in 1 .. Len(annotations) : MissingAt(n)
        /\ (export_status = "returned") => \A n \in 1 .. Len(annotations) : ~MissingAt(n)
        /\ (import_status = "raised") =>
                \E key \in DOMAIN file_object.tags :
                    Carriers(key) # 1 .. Len(annotations)
        /\ (import_status = "returned") =>
                /\ Len(shapes) = Len(items)
                /\ \A i \in 1 .. Len(shapes) :
                    /\ shapes[i].frame = i - 1
                    /\ shapes[i].points =
                            IF NanAt(i) THEN Zeros ELSE annotations[i].points
                    /\ DOMAIN shapes[i].attributes \subseteq DOMAIN attribute_mapping
                    /\ \A key \in LabelNames \cap DOMAIN attribute_mapping :
                        HasOne(key) =>
                            /\ key \in DOMAIN annotations[i].attributes
                            /\ key \in DOMAIN shapes[i].attributes
                            /\ shapes[i].attributes[key] = annotations[i].attributes[key]

\* a completed round trip of two frames: the first out of view, reimported with
\* zero points, the second in view, reimported with its rectangle; "custom" is
\* true on a frame and absent from the shapes
C1_Witness ==
    /\ OnePerFrame
    /\ import_status = "returned"
    /\ Len(shapes) = 2
    /\ NanAt(1) /\ shapes[1].points = Zeros
    /\ ~NanAt(2) /\ shapes[2].points = annotations[2].points
    /\ DOMAIN shapes[1].attributes = {"out_of_view"}
    /\ shapes[1].attributes["out_of_view"] /\ ~shapes[2].attributes["out_of_view"]
    /\ HasOne("custom")
    /\ "custom" \notin DOMAIN shapes[1].attributes

====
